---------------------------- MODULE Spec2Model ----------------------------
(* A model of src/src/vncviewer.c of wlvncc: the default framebuffer       *)
(* callbacks of the VNC client (MallocFrameBuffer, FillRectangle,          *)
(* CopyRectangle, CopyRectangleFromRectangle), the session's construction  *)
(* and cleanup (rfbGetClient, rfbClientCleanup), and the credential        *)
(* callbacks (ReadPassword, ReadUsernameAndPassword, RunAuthCommand).      *)
(*                                                                         *)
(* The framebuffer is a sequence of bytes (byte offset k is mem[k+1]); a   *)
(* pixel of a BPP-bit format is BPP/8 consecutive bytes.  C's int is 32    *)
(* bits wide and its arithmetic is modelled with that width.               *)
EXTENDS Integers, Sequences, FiniteSets, TLC

VARIABLES
    session,        \* "none" | "ready" | "freed": the rfbClient structure
    frameBuffer,    \* client->frameBuffer: NULL or the id of a heap block
    width,          \* client->width
    height,         \* client->height
    bitsPerPixel,   \* client->format.bitsPerPixel
    sock,           \* client->sock
    listenSock,     \* client->listenSock
    listen6Sock,    \* client->listen6Sock
    mem,            \* the bytes of the block frameBuffer points to
    heap,           \* heap[id]: how many times block id was passed to free()
    fds,            \* fds[fd]: how many times descriptor fd was closed
    call,           \* the last callback invocation: its name and arguments
    pre,            \* mem as it was when the last callback was entered
    fault,          \* "none" | "oob" | "trap" | "hang": how the last call ended
    nops,           \* rectangle callbacks invoked since construction
    auth_command,   \* the global auth_command: configured or NULL
    env,            \* the process environment: VNC_USERNAME, VNC_PASSWORD
    cred            \* what the last credential callback did and returned

vars == <<session, frameBuffer, width, height, bitsPerPixel, sock, listenSock,
          listen6Sock, mem, heap, fds, call, pre, fault, nops, auth_command,
          env, cred>>

clientVars == <<session, sock, listenSock, listen6Sock, fds>>
bufferVars == <<frameBuffer, width, height, bitsPerPixel, mem, heap>>
credVars == <<auth_command, env, cred>>

---------------------------------------------------------------------------
(* Bounds of the model *)

MaxDim == 3         \* framebuffers of at most MaxDim x MaxDim pixels hold data
MaxOps == 1         \* rectangle callbacks per session
MaxAllocs == 2      \* calls of MallocFrameBuffer per session

---------------------------------------------------------------------------
(* Values of the C program *)

NULL == 0
\* a char* that is NULL; every other string is a tuple of characters
NULLSTR == <<"NULL">>
INT_MAX == 2147483647
INT_MIN == (-INT_MAX) - 1

\* a + b in a 32-bit int, when the overflow wraps
I32Add(a, b) ==
    IF a > 0 /\ b > 0 /\ a > INT_MAX - b
      THEN ((a - INT_MAX) - 1) + ((b - INT_MAX) - 1)
    ELSE IF a < 0 /\ b < 0 /\ a < INT_MIN - b
      THEN ((a + INT_MAX) + 1) + ((b + INT_MAX) + 1)
    ELSE a + b

\* a + b overflows a 32-bit int
I32AddOverflows(a, b) ==
    \/ a > 0 /\ b > 0 /\ a > INT_MAX - b
    \/ a < 0 /\ b < 0 /\ a < INT_MIN - b

\* a - b for a small b
I32Sub(a, b) == I32Add(a, -b)

\* a * n in a 32-bit int for a small n >= 0, when the overflow wraps
RECURSIVE I32Mul(_, _)
I32Mul(a, n) == IF n = 0 THEN 0 ELSE I32Add(I32Mul(a, n - 1), a)

\* C's a / 8, which truncates towards zero
Div8(a) == IF a >= 0 THEN a \div 8 ELSE -((-a) \div 8)

---------------------------------------------------------------------------
(* Pixels: the framebuffer seen through a pointer to uintBPP_t *)

Supported == {8, 16, 32}

\* the bytes a store of colour through a uintBPP_t lvalue writes: colour
\* truncated to B bytes, least significant byte first
Encode(colour, B) == [n \in 1..B |-> (colour \div (256 ^ (n - 1))) % 256]

\* pixel idx of m lies inside the block
InBuf(m, idx, B) == idx >= 0 /\ idx < Len(m) \div B

LoadPixel(m, idx, B) == SubSeq(m, (idx * B) + 1, (idx * B) + B)

StorePixel(m, idx, B, bytes) ==
    [k \in 1..Len(m) |->
        IF k > idx * B /\ k <= (idx * B) + B THEN bytes[k - (idx * B)] ELSE m[k]]

\* memcpy(frameBuffer + j, buffer + off, rs): rs converts to size_t, so a
\* negative rs is a count beyond every block
memcpy(r, j, buffer, off, rs) ==
    IF rs = 0 THEN r
    ELSE IF \/ rs < 0 \/ j < 0 \/ j > Len(r.mem) \/ rs > Len(r.mem) - j
            \/ rs > Len(buffer) - off
      THEN [r EXCEPT !.fault = "oob"]
    ELSE [r EXCEPT !.mem = [k \in 1..Len(r.mem) |->
              IF k > j /\ k <= j + rs THEN buffer[off + (k - j)] ELSE r.mem[k]]]

---------------------------------------------------------------------------
(* The rectangle callbacks *)

\* the sums CheckRect evaluates, left to right, stopping at the first false
CheckRect(x, y, w, h) == I32Add(x, w) <= width /\ I32Add(y, h) <= height

\* CheckRect overflows int in one of the sums it evaluates
CheckRectOverflows(x, y, w, h) ==
    \/ I32AddOverflows(x, w)
    \/ I32Add(x, w) <= width /\ I32AddOverflows(y, h)

\* for(i=x;i<x+w;i++) frameBuffer[j+i]=colour, in units of uintBPP_t
RECURSIVE FillCols(_, _, _, _, _, _)
FillCols(r, j, i, iEnd, B, bytes) ==
    IF r.fault # "none" \/ ~(i < iEnd) THEN r
    ELSE IF ~InBuf(r.mem, I32Add(j, i), B) THEN [r EXCEPT !.fault = "oob"]
    ELSE FillCols([r EXCEPT !.mem = StorePixel(r.mem, I32Add(j, i), B, bytes)],
                  j, I32Add(i, 1), iEnd, B, bytes)

\* for(j=y*width;j<(y+h)*width;j+=width)
RECURSIVE FillRows(_, _, _, _, _, _, _)
FillRows(r, j, jEnd, x, iEnd, B, bytes) ==
    IF r.fault # "none" \/ ~(j < jEnd) THEN r
    ELSE FillRows(FillCols(r, j, x, iEnd, B, bytes),
                  I32Add(j, width), jEnd, x, iEnd, B, bytes)

\* FILL_RECT with the column loop running to x + w inclusive
FILL_RECT_Inclusive(m, x, y, w, h, colour, BPP) ==
    FillRows([mem |-> m, fault |-> "none"],
             I32Mul(y, width), I32Mul(I32Add(y, h), width),
             x, I32Add(I32Add(x, w), 1), BPP \div 8, Encode(colour, BPP \div 8))

\* a row loop whose column loop visits no pixel leaves the block as it is,
\* however many rows it runs over
FILL_RECT(m, x, y, w, h, colour, BPP) ==
    IF ~(x < I32Add(x, w)) THEN [mem |-> m, fault |-> "none"]
    ELSE FillRows([mem |-> m, fault |-> "none"],
                  I32Mul(y, width), I32Mul(I32Add(y, h), width),
                  x, I32Add(x, w), BPP \div 8, Encode(colour, BPP \div 8))

\* for (j = ...; j < (y + h) * rs2; j += rs2) { memcpy(...); buffer += rs; }
RECURSIVE CopyRows(_, _, _, _, _, _, _)
CopyRows(r, j, jEnd, rs, rs2, buffer, off) ==
    IF r.fault # "none" \/ ~(j < jEnd) THEN r
    ELSE LET r1 == memcpy(r, j, buffer, off, rs) IN
         IF r1.fault # "none" THEN r1
         ELSE IF rs2 = 0 THEN [r1 EXCEPT !.fault = "hang"]
         ELSE CopyRows(r1, I32Add(j, rs2), jEnd, rs, rs2, buffer, off + rs)

\* COPY_RECT advancing the destination by the source's row size
COPY_RECT_SourceStride(m, buffer, x, y, w, h, BPP) ==
    LET rs == Div8(I32Mul(w, BPP))
        rs2 == Div8(I32Mul(width, BPP))
        j0 == I32Add(I32Mul(x, BPP \div 8), I32Mul(y, rs2))
        jEnd == I32Mul(I32Add(y, h), rs2)
    IN IF rs = 0 THEN [mem |-> m, fault |-> "none"]
       ELSE CopyRows([mem |-> m, fault |-> "none"], j0, jEnd, rs, rs, buffer, 0)

\* a loop of empty memcpy calls leaves the block as it is; with rs2 = 0 its
\* counter never advances
COPY_RECT(m, buffer, x, y, w, h, BPP) ==
    LET rs == Div8(I32Mul(w, BPP))
        rs2 == Div8(I32Mul(width, BPP))
        j0 == I32Add(I32Mul(x, BPP \div 8), I32Mul(y, rs2))
        jEnd == I32Mul(I32Add(y, h), rs2)
        r0 == [mem |-> m, fault |-> "none"]
    IN IF rs = 0
         THEN IF j0 < jEnd /\ rs2 = 0 THEN [r0 EXCEPT !.fault = "hang"] ELSE r0
         ELSE CopyRows(r0, j0, jEnd, rs, rs2, buffer, 0)

\* the two column loops: ascending while i < stop, descending while i >= stop
RECURSIVE MoveCols(_, _, _, _, _, _, _)
MoveCols(r, j, i, stop, up, off, B) ==
    IF r.fault # "none" \/ ~(IF up THEN i < stop ELSE i >= stop) THEN r
    ELSE LET to == I32Add(j, i)
             from == I32Add(off, to)
         IN IF ~InBuf(r.mem, to, B) \/ ~InBuf(r.mem, from, B)
              THEN [r EXCEPT !.fault = "oob"]
            ELSE MoveCols([r EXCEPT !.mem =
                              StorePixel(r.mem, to, B, LoadPixel(r.mem, from, B))],
                          j, IF up THEN I32Add(i, 1) ELSE I32Sub(i, 1),
                          stop, up, off, B)

\* MoveRow with the column direction never reversed
MoveRow_Ascending(r, j, src_x, w, dest_x, off, B) ==
    MoveCols(r, j, dest_x, I32Add(dest_x, w), TRUE, off, B)

\* one row of the copy: the column direction is chosen by dest_x < src_x
MoveRow(r, j, src_x, w, dest_x, off, B) ==
    IF dest_x < src_x
      THEN MoveCols(r, j, dest_x, I32Add(dest_x, w), TRUE, off, B)
      ELSE MoveCols(r, j, I32Sub(I32Add(dest_x, w), 1), dest_x, FALSE, off, B)

\* the two row loops: ascending while j < stop, descending while j >= stop
RECURSIVE MoveRows(_, _, _, _, _, _, _, _, _)
MoveRows(r, j, stop, up, src_x, w, dest_x, off, B) ==
    IF r.fault # "none" \/ ~(IF up THEN j < stop ELSE j >= stop) THEN r
    ELSE LET r1 == MoveRow(r, j, src_x, w, dest_x, off, B) IN
         IF r1.fault # "none" THEN r1
         ELSE IF width = 0 THEN [r1 EXCEPT !.fault = "hang"]
         ELSE MoveRows(r1, IF up THEN I32Add(j, width) ELSE I32Sub(j, width),
                       stop, up, src_x, w, dest_x, off, B)

\* the column loop of a row visits no pixel: it runs through on a block
\* without pixels
NoColumns(src_x, w, dest_x) ==
    MoveRow([mem |-> <<>>, fault |-> "none"], 0, src_x, w, dest_x, 0, 1).fault = "none"

\* a row loop over empty column loops leaves the block as it is; with
\* width = 0 its counter never advances
COPY_RECT_FROM_RECT(m, src_x, src_y, w, h, dest_x, dest_y, BPP) ==
    LET off == I32Add(I32Mul(I32Sub(src_y, dest_y), width), I32Sub(src_x, dest_x))
        r0 == [mem |-> m, fault |-> "none"]
        up == dest_y < src_y
        j0 == IF up THEN I32Mul(dest_y, width)
                    ELSE I32Mul(I32Sub(I32Add(dest_y, h), 1), width)
        stop == IF up THEN I32Mul(I32Add(dest_y, h), width)
                      ELSE I32Mul(dest_y, width)
    IN IF NoColumns(src_x, w, dest_x)
         THEN IF (IF up THEN j0 < stop ELSE j0 >= stop) /\ width = 0
                THEN [r0 EXCEPT !.fault = "hang"] ELSE r0
         ELSE MoveRows(r0, j0, stop, up, src_x, w, dest_x, off, BPP \div 8)

\* what a callback leaves when it returns without touching the framebuffer
Untouched == [mem |-> mem, fault |-> "none"]

\* the signed overflow in CheckRect is undefined: the build either wraps it
\* or traps on it
UBOutcomes == {"wrap", "trap"}

Trapped == [mem |-> mem, fault |-> "trap"]

FillRectangleBody(x, y, w, h, colour, ub) ==
    IF frameBuffer = NULL THEN Untouched
    ELSE IF ub = "trap" /\ CheckRectOverflows(x, y, w, h) THEN Trapped
    ELSE IF ~CheckRect(x, y, w, h) THEN Untouched
    ELSE IF bitsPerPixel \in Supported
      THEN FILL_RECT(mem, x, y, w, h, colour, bitsPerPixel)
    ELSE Untouched

CopyRectangleBody(buffer, x, y, w, h, ub) ==
    IF frameBuffer = NULL THEN Untouched
    ELSE IF ub = "trap" /\ CheckRectOverflows(x, y, w, h) THEN Trapped
    ELSE IF ~CheckRect(x, y, w, h) THEN Untouched
    ELSE IF bitsPerPixel \in Supported
      THEN COPY_RECT(mem, buffer, x, y, w, h, bitsPerPixel)
    ELSE Untouched

CopyRectangleFromRectangleBody(src_x, src_y, w, h, dest_x, dest_y, ub) ==
    IF frameBuffer = NULL THEN Untouched
    ELSE IF ub = "trap" /\ CheckRectOverflows(src_x, src_y, w, h) THEN Trapped
    ELSE IF ~CheckRect(src_x, src_y, w, h) THEN Untouched
    ELSE IF ub = "trap" /\ CheckRectOverflows(dest_x, dest_y, w, h) THEN Trapped
    ELSE IF ~CheckRect(dest_x, dest_y, w, h) THEN Untouched
    ELSE IF bitsPerPixel \in Supported
      THEN COPY_RECT_FROM_RECT(mem, src_x, src_y, w, h, dest_x, dest_y,
                               bitsPerPixel)
    ELSE Untouched

\* a rectangle callback is entered on a live session whose last call returned
CanCall == session = "ready" /\ fault = "none" /\ nops < MaxOps

Returns(record, r) ==
    /\ mem' = r.mem
    /\ fault' = r.fault
    /\ pre' = mem
    /\ call' = record
    /\ nops' = nops + 1
    /\ UNCHANGED <<frameBuffer, width, height, bitsPerPixel, heap>>
    /\ UNCHANGED <<clientVars, credVars>>

FillRectangle(x, y, w, h, colour, ub) ==
    Returns([op |-> "FillRectangle", args |-> <<x, y, w, h, colour>>],
               FillRectangleBody(x, y, w, h, colour, ub))

\* from names where the library took the pixels of buffer from
CopyRectangle(buffer, from, x, y, w, h, ub) ==
    Returns([op |-> "CopyRectangle", args |-> <<buffer, x, y, w, h>>,
             from |-> from],
            CopyRectangleBody(buffer, x, y, w, h, ub))

CopyRectangleFromRectangle(src_x, src_y, w, h, dest_x, dest_y, ub) ==
    Returns([op |-> "CopyRectangleFromRectangle",
             args |-> <<src_x, src_y, w, h, dest_x, dest_y>>],
               CopyRectangleFromRectangleBody(src_x, src_y, w, h, dest_x,
                                              dest_y, ub))

---------------------------------------------------------------------------
(* The framebuffer's allocation *)

\* (uint64_t)w * h * bpp / 8 as two 16-bit limbs [hi, lo], for 0 <= w, h < 2^16
AllocSize(w, h, bpp) ==
    LET a == w * (h \div 256)
        b == w * (h % 256)
        lo0 == ((a % 256) * 256) + b
        hi1 == (a \div 256) + (lo0 \div 65536)
        lo1 == lo0 % 65536
        lo2 == lo1 * bpp
        hi3 == (hi1 * bpp) + (lo2 \div 65536)
        lo3 == lo2 % 65536
    IN [hi |-> hi3 \div 8, lo |-> (((hi3 % 8) * 65536) + lo3) \div 8]

\* allocSize >= SIZE_MAX where size_t has 32 bits
TooLarge(size) == size.hi > 65535 \/ (size.hi = 65535 /\ size.lo >= 65535)

\* the heap of the model serves requests of up to HeapBytes bytes
HeapBytes == MaxDim * MaxDim * 4

\* malloc() does not initialise the block: its bytes are whatever was there
GarbageSeeds == {0, 7}
Garbage(n, g) == [k \in 1..n |-> (k * g) % 128]

\* a MallocFrameBuffer that forgets the old block
free_Leak(block) == heap

free(block) == [heap EXCEPT ![block] = @ + 1]

\* MallocFrameBuffer on a client whose width and height are w and h: the
\* heap, the pointer and the block it leaves, and the rfbBool it returns
MallocFrameBufferBody(w, h, ok, g) ==
    LET freed == IF frameBuffer # NULL THEN free(frameBuffer) ELSE heap
        allocSize == AllocSize(w, h, bitsPerPixel)
        fits == allocSize.hi = 0 /\ allocSize.lo <= HeapBytes
    IN IF TooLarge(allocSize)
         THEN [frameBuffer |-> NULL, heap |-> freed, mem |-> <<>>, ret |-> FALSE]
       ELSE IF ok /\ fits
         THEN [frameBuffer |-> Len(heap) + 1, heap |-> Append(freed, 0),
               mem |-> Garbage(allocSize.lo, g), ret |-> TRUE]
       ELSE [frameBuffer |-> NULL, heap |-> freed, mem |-> <<>>, ret |-> FALSE]

\* the library sets width and height from the server's message and calls
\* client->MallocFrameBuffer
MallocFrameBuffer(w, h, ok, g) ==
    /\ width' = w /\ height' = h
    /\ LET r == MallocFrameBufferBody(w, h, ok, g)
       IN /\ frameBuffer' = r.frameBuffer
          /\ heap' = r.heap
          /\ mem' = r.mem
          /\ call' = [op |-> "MallocFrameBuffer", args |-> <<w, h, r.ret>>]
    /\ pre' = mem
    /\ UNCHANGED <<bitsPerPixel, fault, nops>>
    /\ UNCHANGED <<clientVars, credVars>>

---------------------------------------------------------------------------
(* The session *)

RFB_INVALID_SOCKET == -1

NoCred == [fn |-> "none"]

\* rfbGetClient(bitsPerSample, samplesPerPixel, bytesPerPixel): the state it
\* returns the client in
rfbGetClient(bytesPerPixel) ==
    /\ session = "ready"
    /\ frameBuffer = NULL
    /\ width = 0 /\ height = 0
    /\ bitsPerPixel = bytesPerPixel * 8
    /\ sock = RFB_INVALID_SOCKET
    /\ listenSock = RFB_INVALID_SOCKET
    /\ listen6Sock = RFB_INVALID_SOCKET
    /\ mem = <<>> /\ heap = <<>> /\ fds = <<>>
    /\ call = [op |-> "rfbGetClient", args |-> <<bytesPerPixel>>]
    /\ pre = <<>> /\ fault = "none" /\ nops = 0

---------------------------------------------------------------------------
(* The rectangle engine: allocation and the three rectangle callbacks *)

Dims == 0..MaxDim
Origins == (-1)..MaxDim
Sizes == (0..MaxDim) \cup {INT_MAX}
Colours == {65535, 74565}

\* the tightly packed rectangle the library hands to GotBitmap: w * h pixels
Packed(w, h) ==
    IF w \in 0..MaxDim /\ h \in 0..MaxDim
      THEN [k \in 1..(w * h * (bitsPerPixel \div 8)) |-> 100 + k]
      ELSE <<>>

Init ==
    /\ \E bytesPerPixel \in 1..4 : rfbGetClient(bytesPerPixel)
    /\ auth_command = NULL
    /\ env = [VNC_USERNAME |-> NULLSTR, VNC_PASSWORD |-> NULLSTR]
    /\ cred = NoCred

CanAllocate == session = "ready" /\ fault = "none" /\ Len(heap) < MaxAllocs

\* the framebuffer is negotiated before the first update arrives
Allocate ==
    /\ CanAllocate /\ call.op = "rfbGetClient"
    /\ \E w \in Dims, h \in Dims, g \in GarbageSeeds :
        MallocFrameBuffer(w, h, TRUE, g)

Fill ==
    /\ CanCall
    /\ \E x \in Origins, y \in Origins, w \in Sizes, h \in Sizes,
       colour \in Colours, ub \in UBOutcomes :
        FillRectangle(x, y, w, h, colour, ub)

BlockCopy ==
    /\ CanCall
    /\ \E x \in Origins, y \in Origins, w \in Sizes, h \in Sizes,
       ub \in UBOutcomes :
        CopyRectangle(Packed(w, h), <<"server">>, x, y, w, h, ub)

\* the pixels of the w x h region at (rx, ry) of m, tightly packed
PackRegion(m, rx, ry, w, h) ==
    LET B == bitsPerPixel \div 8 IN
    [k \in 1..(w * h * B) |->
        LET p == (k - 1) \div B
        IN m[((((ry + (p \div w)) * width) + rx + (p % w)) * B) + ((k - 1) % B) + 1]]

\* the rectangle lies inside the framebuffer's width x height pixels
Contained(x, y, w, h) ==
    /\ x >= 0 /\ y >= 0 /\ w >= 0 /\ h >= 0
    /\ w <= width - x /\ h <= height - y

\* after a Fill of a region inside the framebuffer, the region's pixels may be
\* pasted elsewhere: GotBitmap with the region's pixels as its source
PasteFilled ==
    /\ session = "ready" /\ fault = "none" /\ nops <= MaxOps
    /\ call.op = "FillRectangle"
    /\ frameBuffer # NULL /\ bitsPerPixel \in Supported
    /\ Contained(call.args[1], call.args[2], call.args[3], call.args[4])
    /\ \E x \in Origins, y \in Origins, ub \in UBOutcomes :
        CopyRectangle(PackRegion(mem, call.args[1], call.args[2],
                                 call.args[3], call.args[4]),
                      <<"filled", call.args[1], call.args[2], call.args[5]>>,
                      x, y, call.args[3], call.args[4], ub)

SelfCopy ==
    /\ CanCall
    /\ \E src_x \in Origins, src_y \in Origins, w \in Sizes, h \in Sizes,
       dest_x \in Origins, dest_y \in Origins, ub \in UBOutcomes :
        CopyRectangleFromRectangle(src_x, src_y, w, h, dest_x, dest_y, ub)

Next == Allocate \/ Fill \/ BlockCopy \/ PasteFilled \/ SelfCopy

Spec == Init /\ [][Next]_vars

---------------------------------------------------------------------------
(* The session's life: reallocation, sockets, cleanup *)

\* the library opens a socket and stores its descriptor in the client
open == [fd |-> Len(fds) + 1, fds |-> Append(fds, 0)]

rfbCloseSocket(closed, fd) == [closed EXCEPT ![fd] = @ + 1]

Opens(op) ==
    /\ fds' = open.fds
    /\ call' = [op |-> op, args |-> <<open.fd>>]
    /\ UNCHANGED <<session, bufferVars, pre, fault, nops, credVars>>

ConnectToRFBServer ==
    /\ session = "ready" /\ sock = RFB_INVALID_SOCKET
    /\ sock' = open.fd
    /\ UNCHANGED <<listenSock, listen6Sock>>
    /\ Opens("ConnectToRFBServer")

ListenAtTcpPort ==
    /\ session = "ready" /\ listenSock = RFB_INVALID_SOCKET
    /\ listenSock' = open.fd
    /\ UNCHANGED <<sock, listen6Sock>>
    /\ Opens("ListenAtTcpPort")

ListenAtTcpPort6 ==
    /\ session = "ready" /\ listen6Sock = RFB_INVALID_SOCKET
    /\ listen6Sock' = open.fd
    /\ UNCHANGED <<sock, listenSock>>
    /\ Opens("ListenAtTcpPort6")

\* the descriptors rfbClientCleanup passes to rfbCloseSocket, in order
CleanupCloses ==
    (IF sock # RFB_INVALID_SOCKET THEN <<sock>> ELSE <<>>)
    \o (IF listenSock # RFB_INVALID_SOCKET THEN <<listenSock>> ELSE <<>>)

\* the heap blocks rfbClientCleanup passes to free(), among the framebuffers
CleanupFrees == <<>>

RECURSIVE CloseAll(_, _)
CloseAll(closed, list) ==
    IF list = <<>> THEN closed
    ELSE CloseAll(rfbCloseSocket(closed, Head(list)), Tail(list))

RECURSIVE FreeAll(_, _)
FreeAll(h, list) ==
    IF list = <<>> THEN h
    ELSE FreeAll([h EXCEPT ![Head(list)] = @ + 1], Tail(list))

rfbClientCleanup ==
    /\ session = "ready"
    /\ session' = "freed"
    /\ fds' = CloseAll(fds, CleanupCloses)
    /\ heap' = FreeAll(heap, CleanupFrees)
    /\ call' = [op |-> "rfbClientCleanup", args |-> <<>>]
    /\ UNCHANGED <<frameBuffer, width, height, bitsPerPixel, mem, sock,
                   listenSock, listen6Sock, pre, fault, nops, credVars>>

\* widths and heights of the protocol's 16-bit fields
LifeDims == {0, 1, MaxDim, 65535}

Reallocate ==
    /\ CanAllocate
    /\ \E w \in LifeDims, h \in LifeDims, ok \in BOOLEAN :
        MallocFrameBuffer(w, h, ok, 0)

LifeNext ==
    \/ Reallocate
    \/ ConnectToRFBServer
    \/ ListenAtTcpPort
    \/ ListenAtTcpPort6
    \/ rfbClientCleanup

SpecLife == Init /\ [][LifeNext]_vars

---------------------------------------------------------------------------
(* The credential callbacks *)

\* the lines a stream delivers: each is its text and whether a newline ends it
Texts == {<<>>, <<"a", "b">>}
Lines == {l \in [text : Texts, nl : BOOLEAN] : l.nl \/ l.text # <<>>}
FullLines == {l \in Lines : l.nl}
\* end of file: getline() reads nothing and allocates nothing
NoLine == [text |-> <<>>, nl |-> FALSE]

\* what the auth command may print: up to MaxLines lines, all but the last
\* one ended by a newline
Outputs(n) ==
    {out \in UNION {[1..m -> Lines] : m \in 0..n} :
        \A k \in 1..(Len(out) - 1) : out[k].nl}

\* getline() followed by line[len - 1] = '\0': the last character is cut,
\* newline or not
Chop(l) == IF l.nl THEN l.text ELSE SubSeq(l.text, 1, Len(l.text) - 1)

\* ReadLine(title): prompts on stderr, reads one line of stdin
ReadLine(title, tty) ==
    [ret |-> IF tty = NoLine THEN NULLSTR ELSE Chop(tty),
     trace |-> <<"prompt " \o title>>]

\* ReadLineNoEcho(title): ReadLine between two tcsetattr calls
ReadLineNoEcho(title, tty, o) ==
    IF ~o.tcgetattr \/ ~o.tcsetattr THEN [ret |-> NULLSTR, trace |-> <<>>]
    ELSE ReadLine(title, tty)

\* RunAuthCommand(username, password) with *username = *password = NULL on
\* entry; wantUser says that username is not a null pointer.  o holds what
\* the system calls and the child do.
RunAuthCommand(wantUser, o) ==
    LET failed == [rc |-> -1, username |-> NULLSTR, password |-> NULLSTR,
                   fault |-> "none", trace |-> <<>>]
        child == <<"fork", "child getenv SHELL", "child execl auth_command">>
        gotUser == wantUser /\ Len(o.out) >= 1
        username == IF gotUser THEN Chop(o.out[1]) ELSE NULLSTR
        rest == IF gotUser THEN Tail(o.out) ELSE o.out
        password == IF Len(rest) >= 1 THEN Chop(rest[1]) ELSE NULLSTR
    IN IF ~o.pipe \/ ~o.fdopen \/ ~o.fork THEN failed
       ELSE IF ~o.waitpid THEN [failed EXCEPT !.trace = child]
       ELSE IF ~o.exited
         THEN [rc |-> 1, username |-> NULLSTR, password |-> NULLSTR,
               fault |-> "none", trace |-> child]
       ELSE IF ~wantUser /\ o.deref = "crash"
         THEN [rc |-> 0, username |-> NULLSTR, password |-> password,
               fault |-> "crash", trace |-> child]
       ELSE IF password = NULLSTR
         THEN [rc |-> -1, username |-> username, password |-> NULLSTR,
               fault |-> "none", trace |-> child]
       ELSE [rc |-> 1, username |-> username, password |-> password,
             fault |-> "none", trace |-> child]

\* a callback's result: NULL, a password, or a credential
NoCredential == [null |-> TRUE]
Password(p) ==
    IF p = NULLSTR THEN NoCredential ELSE [null |-> FALSE, password |-> p]

ReadPasswordBody(o) ==
    IF auth_command # NULL
      THEN LET r == RunAuthCommand(FALSE, o) IN
           [ret |-> IF r.rc < 0 THEN NoCredential ELSE Password(r.password),
            fault |-> r.fault, trace |-> r.trace]
      ELSE LET l == ReadLineNoEcho("Password", o.ttyPass, o) IN
           [ret |-> Password(l.ret), fault |-> "none", trace |-> l.trace]

\* the auth_command branch of ReadUsernameAndPassword
CredFromAuthCommand(o) ==
    LET r == RunAuthCommand(TRUE, o) IN
    [ret |-> IF r.rc < 0 THEN NoCredential
             ELSE [null |-> FALSE, username |-> r.username,
                   password |-> r.password],
     fault |-> r.fault, trace |-> r.trace]

\* the rest of ReadUsernameAndPassword: the environment, else the terminal
CredFromEnvOrTerminal(o) ==
    LET getenvs == <<"getenv VNC_USERNAME", "getenv VNC_PASSWORD">>
        fromEnv == env.VNC_USERNAME # NULLSTR /\ env.VNC_PASSWORD # NULLSTR
        user == ReadLine("User", o.ttyUser)
        pass == ReadLineNoEcho("Password", o.ttyPass, o)
        username == IF fromEnv THEN env.VNC_USERNAME ELSE user.ret
        password == IF fromEnv THEN env.VNC_PASSWORD ELSE pass.ret
    IN [ret |-> IF username = NULLSTR \/ password = NULLSTR
                  THEN NoCredential
                  ELSE [null |-> FALSE, username |-> username,
                        password |-> password],
        fault |-> "none",
        trace |-> IF fromEnv THEN getenvs
                  ELSE getenvs \o user.trace \o pass.trace]

\* a ReadUsernameAndPassword that falls through to the environment and the
\* terminal when the auth command fails
ReadUsernameAndPasswordBody_FallsThrough(o) ==
    IF auth_command # NULL /\ RunAuthCommand(TRUE, o).rc >= 0
      THEN CredFromAuthCommand(o)
      ELSE CredFromEnvOrTerminal(o)

ReadUsernameAndPasswordBody(o) ==
    IF auth_command # NULL
      THEN CredFromAuthCommand(o)
      ELSE CredFromEnvOrTerminal(o)

CanAsk == session = "ready" /\ cred.fn = "none"

Asked(fn, o, r) ==
    /\ cred' = [fn |-> fn, o |-> o, ret |-> r.ret, fault |-> r.fault,
                trace |-> r.trace]
    /\ call' = [op |-> fn, args |-> <<>>]
    /\ UNCHANGED <<clientVars, bufferVars, pre, fault, nops, auth_command, env>>

ReadPassword(o) == Asked("ReadPassword", o, ReadPasswordBody(o))

ReadUsernameAndPassword(o) ==
    Asked("ReadUsernameAndPassword", o, ReadUsernameAndPasswordBody(o))

MaxLines == 2

\* what the system calls, the child and the terminal may do during one call
Outcomes ==
    [pipe : BOOLEAN, fdopen : BOOLEAN, fork : BOOLEAN, waitpid : BOOLEAN,
     exited : BOOLEAN, out : Outputs(MaxLines), deref : {"crash", "skip"},
     tcgetattr : BOOLEAN, tcsetattr : BOOLEAN,
     ttyUser : {NoLine} \cup FullLines, ttyPass : {NoLine} \cup FullLines]

CredInit ==
    /\ rfbGetClient(4)
    /\ auth_command \in {NULL, 1}
    /\ env \in [VNC_USERNAME : {NULLSTR, <<"u">>}, VNC_PASSWORD : {NULLSTR, <<"p">>}]
    /\ cred = NoCred

GetPassword == CanAsk /\ \E o \in Outcomes : ReadPassword(o)

GetCredential == CanAsk /\ \E o \in Outcomes : ReadUsernameAndPassword(o)

CredNext == GetPassword \/ GetCredential

SpecCred == CredInit /\ [][CredNext]_vars

---------------------------------------------------------------------------
(* Properties of the rectangle engine, checked under Spec *)

BytesPerPixel == bitsPerPixel \div 8

\* the bytes of pixel (px, py) of m
PixelAt(m, px, py) == LoadPixel(m, (py * width) + px, BytesPerPixel)

\* a pixel's bytes read as one unsigned number
RECURSIVE PixelValue(_)
PixelValue(bytes) ==
    IF bytes = <<>> THEN 0 ELSE Head(bytes) + (256 * PixelValue(Tail(bytes)))

\* colour reduced to the pixel width
Truncated(colour) == IF bitsPerPixel = 32 THEN colour ELSE colour % (2 ^ bitsPerPixel)

InRect(px, py, x, y, w, h) == px >= x /\ px < x + w /\ py >= y /\ py < y + h

RectOps == {"FillRectangle", "CopyRectangle", "CopyRectangleFromRectangle"}

\* the rectangles of the last call: <<x, y, w, h>> each
CallRects ==
    IF call.op = "FillRectangle"
      THEN {<<call.args[1], call.args[2], call.args[3], call.args[4]>>}
    ELSE IF call.op = "CopyRectangle"
      THEN {<<call.args[2], call.args[3], call.args[4], call.args[5]>>}
    ELSE IF call.op = "CopyRectangleFromRectangle"
      THEN {<<call.args[1], call.args[2], call.args[3], call.args[4]>>,
            <<call.args[5], call.args[6], call.args[3], call.args[4]>>}
    ELSE {}

Drawable == frameBuffer # NULL /\ bitsPerPixel \in Supported

\* C1: a SelfCopy whose source and destination rectangles lie inside the
\* framebuffer leaves in every destination pixel (dest_x+i, dest_y+k) the value
\* source pixel (src_x+i, src_y+k) had before the call, whatever the overlap,
\* and touches nothing outside the block.  (On a framebuffer of width 0 the
\* descending row loop never ends; no pixel exists there.)
C1_SelfCopyMovesRegion ==
    (/\ call.op = "CopyRectangleFromRectangle" /\ Drawable
     /\ \A r \in CallRects : Contained(r[1], r[2], r[3], r[4]))
    => /\ fault = "none" \/ (fault = "hang" /\ width = 0)
       /\ \A i \in 0..(call.args[3] - 1), k \in 0..(call.args[4] - 1) :
            PixelAt(mem, call.args[5] + i, call.args[6] + k)
              = PixelAt(pre, call.args[1] + i, call.args[2] + k)

\* C1 witness: a 2x1 region moved one pixel to the right within its row, so
\* that the destination overlaps the part of the source not yet read
C1_Witness ==
    /\ call.op = "CopyRectangleFromRectangle"
    /\ call.args = <<0, 0, 2, 1, 1, 0>>
    /\ bitsPerPixel = 16 /\ width = 3 /\ height = 3 /\ fault = "none"
    /\ PixelAt(pre, 0, 0) # PixelAt(pre, 1, 0)
    /\ PixelAt(mem, 1, 0) = PixelAt(pre, 0, 0)
    /\ PixelAt(mem, 2, 0) = PixelAt(pre, 1, 0)

\* C2: no call of Fill, BlockCopy or SelfCopy with x, y, w, h >= 0 on a
\* supported pixel width reads or writes outside the framebuffer or beyond
\* the source buffer's w * h pixels
C2_NoAccessOutside ==
    (/\ call.op \in RectOps /\ bitsPerPixel \in Supported
     /\ \A r \in CallRects : r[1] >= 0 /\ r[2] >= 0 /\ r[3] >= 0 /\ r[4] >= 0)
    => fault # "oob"

\* C3: a call of Fill, BlockCopy or SelfCopy with a rectangle that is not
\* inside the framebuffer leaves the framebuffer byte for byte unchanged
C3_UncontainedUnchanged ==
    (/\ call.op \in RectOps
     /\ \E r \in CallRects : ~Contained(r[1], r[2], r[3], r[4]))
    => mem = pre /\ fault = "none"

\* C9: a BlockCopy into a rectangle inside the framebuffer leaves source
\* pixel k*w+i in framebuffer pixel (x+i, y+k) and every pixel outside the
\* rectangle unchanged; and when the source holds the pixels of a region just
\* filled, pasted into a rectangle disjoint from it, both regions hold the
\* fill colour afterwards
C9_BlockCopyPastes ==
    (/\ call.op = "CopyRectangle" /\ Drawable
     /\ \A r \in CallRects : Contained(r[1], r[2], r[3], r[4]))
    => LET buffer == call.args[1]
           x == call.args[2]
           y == call.args[3]
           w == call.args[4]
           h == call.args[5]
           B == BytesPerPixel
       IN /\ fault = "none"
          /\ \A i \in 0..(w - 1), k \in 0..(h - 1) :
               PixelAt(mem, x + i, y + k)
                 = SubSeq(buffer, (((k * w) + i) * B) + 1, (((k * w) + i) * B) + B)
          /\ \A px \in 0..(width - 1), py \in 0..(height - 1) :
               ~InRect(px, py, x, y, w, h) => PixelAt(mem, px, py) = PixelAt(pre, px, py)
          /\ (/\ call.from[1] = "filled"
              /\ \A px \in 0..(width - 1), py \in 0..(height - 1) :
                    ~(/\ InRect(px, py, x, y, w, h)
                      /\ InRect(px, py, call.from[2], call.from[3], w, h)))
             => \A i \in 0..(w - 1), k \in 0..(h - 1) :
                  /\ PixelValue(PixelAt(mem, x + i, y + k)) = Truncated(call.from[4])
                  /\ PixelValue(PixelAt(mem, call.from[2] + i, call.from[3] + k))
                       = Truncated(call.from[4])

\* C9 witness: a 1x2 region filled with 0x12345 at (0,0) of a 3x3 16-bit
\* framebuffer and pasted at (2,1), where the framebuffer's rows are wider
\* than the source's
C9_Witness ==
    /\ call.op = "CopyRectangle"
    /\ call.from = <<"filled", 0, 0, 74565>>
    /\ <<call.args[2], call.args[3], call.args[4], call.args[5]>> = <<2, 1, 1, 2>>
    /\ bitsPerPixel = 16 /\ width = 3 /\ height = 3 /\ fault = "none"
    /\ mem # pre
    /\ PixelValue(PixelAt(mem, 2, 2)) = 9029
    /\ PixelValue(PixelAt(mem, 0, 1)) = 9029

\* what Fill leaves inside its rectangle and outside it
FillPaints(outside(_, _)) ==
    (/\ call.op = "FillRectangle" /\ Drawable
     /\ \A r \in CallRects : Contained(r[1], r[2], r[3], r[4]))
    => /\ fault = "none"
       /\ Len(mem) = width * height * BytesPerPixel
       /\ \A px \in 0..(width - 1), py \in 0..(height - 1) :
            IF InRect(px, py, call.args[1], call.args[2], call.args[3], call.args[4])
              THEN PixelValue(PixelAt(mem, px, py)) = Truncated(call.args[5])
              ELSE outside(px, py)

OutsideIsZero(px, py) == PixelValue(PixelAt(mem, px, py)) = 0

OutsideIsKept(px, py) == PixelAt(mem, px, py) = PixelAt(pre, px, py)

\* C10 as stated: on a freshly allocated framebuffer, a Fill of a rectangle
\* inside it leaves the colour, truncated to the pixel width, in every pixel
\* of the rectangle and zero in every other pixel
C10_FillOnFreshBufferRestZero == FillPaints(OutsideIsZero)

\* C10 as amended: ... and every other pixel as malloc left it, which need
\* not be zero
C10_FillOnFreshBufferRestKept == FillPaints(OutsideIsKept)

\* C10 witness: Fill({0,0,2,2}, 0xFFFF) on a fresh 3x3 16-bit framebuffer
\* whose block malloc did not hand out zeroed
C10_Witness ==
    /\ call.op = "FillRectangle"
    /\ call.args = <<0, 0, 2, 2, 65535>>
    /\ bitsPerPixel = 16 /\ width = 3 /\ height = 3 /\ fault = "none"
    /\ PixelValue(PixelAt(mem, 1, 1)) = 65535
    /\ PixelValue(PixelAt(mem, 2, 2)) # 0
    /\ PixelAt(mem, 2, 2) = PixelAt(pre, 2, 2)

---------------------------------------------------------------------------
(* Properties of the session's life, checked under SpecLife *)

Blocks == 1..Len(heap)

\* width * height * bitsPerPixel / 8 >= SIZE_MAX = 2^32 - 1, for 16-bit
\* width and height, by division
ExceedsSizeMax(w, h) ==
    LET bytes == bitsPerPixel \div 8
        most == IF bytes = 2 THEN INT_MAX
                ELSE IF bytes = 3 THEN 1431655764 ELSE 1073741823
    IN bytes > 1 /\ h > 0 /\ w > most \div h

\* C4: MallocFrameBuffer frees the block installed before it installs a new
\* one, so that at most one block is live and it is the installed one; a call
\* whose size reaches SIZE_MAX fails; and every call that fails, there or in
\* malloc, returns FALSE and leaves frameBuffer NULL with no block live
C4_OneLiveBufferFailuresLeaveNone ==
    /\ \A b \in Blocks : heap[b] <= 1 /\ (heap[b] = 0 => b = frameBuffer)
    /\ call.op = "MallocFrameBuffer" =>
         /\ ExceedsSizeMax(call.args[1], call.args[2]) => ~call.args[3]
         /\ ~call.args[3] => frameBuffer = NULL /\ \A b \in Blocks : heap[b] = 1
         /\ call.args[3] => frameBuffer \in Blocks /\ heap[frameBuffer] = 0

\* C4 witness: with a block installed, a 65535 x 65535 framebuffer of 32-bit
\* pixels is requested; the call fails and the old block is freed
C4_Witness ==
    /\ call = [op |-> "MallocFrameBuffer", args |-> <<65535, 65535, FALSE>>]
    /\ bitsPerPixel = 32
    /\ heap = <<1>> /\ frameBuffer = NULL

\* C5: after rfbClientCleanup no framebuffer block is live: every block ever
\* installed has been freed exactly once
C5_TeardownFreesFrameBuffer ==
    session = "freed" => \A b \in Blocks : heap[b] = 1

\* C6: after rfbClientCleanup every descriptor opened into sock, listenSock
\* or listen6Sock has been closed exactly once, and nothing else has
C6_TeardownClosesOwnedSockets ==
    session = "freed" => \A fd \in 1..Len(fds) : fds[fd] = 1

---------------------------------------------------------------------------
(* Properties of the credential callbacks, checked under SpecCred *)

Consulted == {"getenv VNC_USERNAME", "getenv VNC_PASSWORD",
              "prompt User", "prompt Password"}

\* what the auth command's output can yield as a username or password
FromCommand(o) == {Chop(o.out[k]) : k \in 1..Len(o.out)}

\* C7: with an auth command configured, ReadPassword and
\* ReadUsernameAndPassword on every path, the failing ones included, read
\* neither VNC_USERNAME nor VNC_PASSWORD and prompt for nothing, and what
\* they return was printed by the command
C7_AuthCommandTakesPrecedence ==
    (cred.fn # "none" /\ auth_command # NULL)
    => /\ \A k \in 1..Len(cred.trace) : cred.trace[k] \notin Consulted
       /\ (cred.fn = "ReadPassword" /\ cred.ret # NoCredential)
            => cred.ret.password \in FromCommand(cred.o)
       /\ (cred.fn = "ReadUsernameAndPassword" /\ cred.ret # NoCredential)
            => \A f \in {cred.ret.username, cred.ret.password} :
                 f = NULLSTR \/ f \in FromCommand(cred.o)

\* C7 witness: the auth command runs and prints nothing while VNC_USERNAME
\* and VNC_PASSWORD are both set; ReadUsernameAndPassword returns NULL
C7_Witness ==
    /\ cred.fn = "ReadUsernameAndPassword" /\ auth_command # NULL
    /\ env = [VNC_USERNAME |-> <<"u">>, VNC_PASSWORD |-> <<"p">>]
    /\ cred.o.pipe /\ cred.o.fdopen /\ cred.o.fork /\ cred.o.waitpid
    /\ cred.o.exited /\ cred.o.out = <<>>
    /\ cred.ret = NoCredential
    /\ "child execl auth_command" \in {cred.trace[k] : k \in 1..Len(cred.trace)}

\* the lines the callback expects of the command
Expected == IF cred.fn = "ReadPassword" THEN 1 ELSE 2

CommandFailed ==
    \/ ~cred.o.pipe \/ ~cred.o.fdopen \/ ~cred.o.fork \/ ~cred.o.waitpid
    \/ ~cred.o.exited
    \/ Len(cred.o.out) < Expected

\* C8: when the pipe, the fork or the wait fails, when the child does not
\* terminate normally, or when it prints fewer lines than expected, the
\* callback returns NULL; it never returns a credential without a username
\* or without a password
C8_CommandFailureReturnsNull ==
    (cred.fn # "none" /\ auth_command # NULL /\ cred.fault = "none")
    => /\ CommandFailed => cred.ret = NoCredential
       /\ (cred.fn = "ReadUsernameAndPassword" /\ cred.ret # NoCredential)
            => cred.ret.username # NULLSTR /\ cred.ret.password # NULLSTR

=============================================================================
